---- MODULE Spec2Model ----
(***************************************************************************)
(* Model of mycroft/audio/services/vlc/__init__.py: the VlcService audio   *)
(* backend (an adapter over the vlc media list player).                    *)
(*                                                                         *)
(* The adapter's methods are operators from a state record to a state      *)
(* record, written statement by statement after the Python code, so that a *)
(* method that calls another (stop calls restore_volume, clear_list) is    *)
(* their composition.  The actions apply one method to the current state.  *)
(* The vlc engine is an external library: the part of it the adapter       *)
(* drives (play state, pause flag, volume, media list, position, events)   *)
(* is kept as a small deterministic state machine.                         *)
(***************************************************************************)
EXTENDS Integers, Sequences, FiniteSets, TLC

\* ------------------------------------------------------------------ bounds
\* Volumes range over 0..MaxVolume (percent, scaled down).
MaxVolume == 2
\* Distinct media URIs.
MaxURI == 2
\* Longest media list, and longest argument of add_list.
MaxQueue == 1
\* Seek amounts range over -MaxSeek..MaxSeek seconds.
MaxSeek == 2
\* Track lengths range over 0..MaxLength half seconds.
MaxLength == 4
\* Threads calling lower_volume at the same time.
MaxThreads == 2
\* Longest argument of add_list where the queue's content is checked.
MaxTracks == 2
\* Engine events emitted in one run of the event relay.
MaxEvents == 2
\* Longest media list while the event relay runs.
MaxEventQueue == 2

\* ------------------------------------------------------- program constants
\* seconds * 1000 in seek_forward / seek_backward
MsPerSecond == 1000
\* self.config.get('low_volume', 30)
DefaultLowVolume == 30
\* self.initial_volume = 50
DefaultVolume == 50

Volumes == 0..MaxVolume
URIs == 1..MaxURI
SeekAmounts == (-MaxSeek)..MaxSeek
\* Track lengths and positions, ms, in steps of half a second.
Lengths == {u * 500 : u \in 0..MaxLength}
Positions(len) == {p \in Lengths : p <= len}

\* Python's None and an optional value: <<>> is None, <<v>> is the value v.
None == <<>>
Some(v) == <<v>>
Val(o) == o[1]

VARIABLES
    \* VlcService fields and configuration
    normal_volume,   \* self.normal_volume: None or the volume before ducking
    low_volume,      \* self.low_volume = config.get('low_volume', 30)
    duck,            \* config.get('duck', False)
    volume,          \* self.volume
    callback,        \* self._track_start_callback is set
    \* vlc engine
    track_list,      \* the media list set on the list player
    index,           \* position of the list player's current item, 0: none
    media,           \* the player's current media, 0: none
    state,           \* "stopped", "playing" or "paused"
    player_volume,   \* player.audio_get_volume()
    mode,            \* playback mode: "default" or "loop"
    time,            \* player.get_time(), ms
    length,          \* player.get_length(), ms
    events,          \* engine events emitted and not yet handled
    \* event relay
    hpc,             \* the handler thread: None, or <<event>> past its check
    invoked,         \* log of the calls of the track start callback
    emitted,         \* number of engine events emitted so far
    \* history
    ducked,          \* a lower_volume took effect, no restore_volume since
    hist,            \* the last operation with its pre-state, after the
                     \* lower_volume that came right before it, if one did
    after_stop,      \* stop has returned; lower_volume and restore_volume
                     \* only have been called since
    \* construction
    conf,            \* the config given to __init__ and the bus's answer
    \* concurrent callers
    thr              \* the threads inside lower_volume: position and locals

vars == <<normal_volume, low_volume, duck, volume, callback, track_list, index,
          media, state, player_volume, mode, time, length, events, hpc,
          invoked, emitted, ducked, hist, after_stop, conf, thr>>

\* What the sequential calls and the event relay leave alone.
aux == <<after_stop, conf, thr>>

config == <<low_volume, duck, volume, callback>>
relay == <<hpc, invoked>>

\* The state the methods work on, as a record.  calls is the trace of the
\* engine calls made by the method under way, ret its return value.
Cur ==
    [normal_volume |-> normal_volume, track_list |-> track_list,
     index |-> index, media |-> media, state |-> state,
     player_volume |-> player_volume, mode |-> mode, time |-> time,
     events |-> events, emitted |-> emitted, ducked |-> ducked,
     calls |-> <<>>, ret |-> None]

Log(s, call) == [s EXCEPT !.calls = Append(@, call)]

\* ------------------------------------------------------------- vlc engine
\* The engine emits an event: MediaPlayerPlaying carries the media that
\* started, MediaListPlayerPlayed carries 0.
Emit(s, type) ==
    [s EXCEPT !.events = Append(@, [type |-> type,
                                   media |-> IF type = "playing"
                                             THEN s.media ELSE 0]),
              !.emitted = @ + 1]

is_playing(s) == s.state = "playing"

audio_get_volume(s) == s.player_volume

audio_set_volume(s, v) ==
    Log([s EXCEPT !.player_volume = v], <<"audio_set_volume", v>>)

\* player.set_pause(do_pause): acts on a player that has an input only.
set_pause(s, do_pause) ==
    LET s1 == Log(s, <<"set_pause", do_pause>>)
    IN  IF do_pause = 1 /\ s.state = "playing"
            THEN [s1 EXCEPT !.state = "paused"]
        ELSE IF do_pause = 0 /\ s.state = "paused"
            THEN Emit([s1 EXCEPT !.state = "playing"], "playing")
        ELSE s1

\* The list player starts the item at position i of its list.
play_item(s, i) ==
    Emit([s EXCEPT !.index = i, !.media = s.track_list[i],
                   !.state = "playing", !.time = 0], "playing")

\* The position after / before the current one, 0 when there is none.
next_index(s) ==
    IF s.index < Len(s.track_list) THEN s.index + 1
    ELSE IF s.mode = "loop" /\ Len(s.track_list) > 0 THEN 1
    ELSE 0

previous_index(s) ==
    IF s.index > 1 /\ s.index <= Len(s.track_list) THEN s.index - 1
    ELSE IF s.mode = "loop" /\ Len(s.track_list) > 0 THEN Len(s.track_list)
    ELSE 0

list_player_next(s) ==
    LET s1 == Log(s, <<"next">>)
    IN  IF next_index(s) = 0 THEN s1 ELSE play_item(s1, next_index(s))

list_player_previous(s) ==
    LET s1 == Log(s, <<"previous">>)
    IN  IF previous_index(s) = 0 THEN s1 ELSE play_item(s1, previous_index(s))

\* list_player.play(): resumes a paused player, else plays the current
\* item, or the next one when there is no current item.
list_player_play(s) ==
    LET s1 == Log(s, <<"play">>)
    IN  IF s.state = "paused"
            THEN Emit([s1 EXCEPT !.state = "playing"], "playing")
        ELSE IF s.state = "playing" THEN s1
        ELSE IF s.index \in 1..Len(s.track_list) THEN play_item(s1, s.index)
        ELSE IF next_index(s) = 0 THEN s1
        ELSE play_item(s1, next_index(s))

list_player_stop(s) ==
    Log([s EXCEPT !.state = "stopped", !.index = 0, !.time = 0], <<"stop">>)

set_media_list(s, l) ==
    Log([s EXCEPT !.track_list = l], <<"set_media_list">>)

set_playback_mode(s, m) ==
    Log([s EXCEPT !.mode = m], <<"set_playback_mode", m>>)

Min(a, b) == IF a < b THEN a ELSE b
Max(a, b) == IF a > b THEN a ELSE b

\* player.set_time(t): the call is logged with the position it asks for; the
\* engine's position stays within the track.
set_time(s, t) ==
    Log([s EXCEPT !.time = Max(0, Min(t, length))], <<"set_time", t>>)

get_time(s) == s.time

get_length(s) == length

\* player.get_media().get_meta(...): the metadata of the media m.
get_meta(m, field) == <<field, m>>

\* ---------------------------------------------------------- VlcService
\* config.get(key, default): the option is None when the key is absent.
config_get(opt, default) == IF opt = None THEN default ELSE Val(opt)

\* The config and the answer of the bus that __init__ is given.  The
\* 'percent' of the answer is a fraction of 1, kept here in thousandths.
Opt(S) == {None} \cup {Some(x) : x \in S}
BusPercents == {5 * k : k \in 0..(2 * MaxVolume + 1)}
Configs ==
    [volume : Opt(Volumes), low_volume : Opt(Volumes), duck : Opt(BOOLEAN),
     bus : Opt(BusPercents)]
\* A config that sets every key.
FullConfig(v, low, d) ==
    [volume |-> Some(v), low_volume |-> Some(low), duck |-> Some(d),
     bus |-> None]

\* Mutant: the safe default is used although the bus answered.
initial_volume_default(c) == DefaultVolume

\* __init__: int(vol_msg.data["percent"] * 100) if vol_msg else 50
initial_volume(c) ==
    IF c.bus # None THEN (Val(c.bus) * 100) \div 1000 ELSE DefaultVolume

\* Mutant: the volume of the bus is used although one is configured.
init_volume_bus(c) == initial_volume(c)

\* __init__: self.volume = int(self.config.get('volume', self.initial_volume))
init_volume(c) == config_get(c.volume, initial_volume(c))

\* __init__: self.low_volume = self.config.get('low_volume', 30)
init_low_volume(c) == config_get(c.low_volume, DefaultLowVolume)

\* self.config.get('duck', False)
init_duck(c) == config_get(c.duck, FALSE)

clear_list(s) == set_media_list(s, <<>>)

\* An element of tracks is a bare URI or a list whose first element is the
\* URI: [is_list |-> FALSE, val |-> <<u>>] or [is_list |-> TRUE, val |-> l].
\* Mutant: takes the last element of a list, t[-1].
unwrap_last(t) == IF t.is_list THEN t.val[Len(t.val)] ELSE Val(t.val)

unwrap(t) == IF t.is_list THEN t.val[1] ELSE Val(t.val)

RECURSIVE add_list(_, _)
add_list(s, tracks) ==
    IF tracks = <<>> THEN s
    ELSE add_list(Log([s EXCEPT !.track_list = Append(@, unwrap(Head(tracks)))],
                      <<"add_media", unwrap(Head(tracks))>>),
                  Tail(tracks))

\* Mutant: starts playback without setting the volume.
play_keeps_volume(s, repeat) ==
    list_player_play(set_playback_mode(s, IF repeat THEN "loop" ELSE "default"))

play(s, repeat) ==
    LET s1 == set_playback_mode(s, IF repeat THEN "loop" ELSE "default")
        s2 == list_player_play(s1)
    IN  audio_set_volume(s2, volume)

pause(s) == set_pause(s, 1)

resume(s) == set_pause(s, 0)

next(s) == list_player_next(s)

previous(s) == list_player_previous(s)

\* Mutant: lowers the volume whether or not it is already lowered.
lower_volume_again(s) ==
    IF is_playing(s) /\ duck
    THEN LET s1 == [s EXCEPT !.normal_volume = Some(audio_get_volume(s)),
                             !.ducked = TRUE]
         IN  IF Val(s1.normal_volume) < low_volume
             THEN pause(s1)
             ELSE audio_set_volume(s1, low_volume)
    ELSE s

\* Mutant: lowers the volume whether or not ducking is enabled.
lower_volume_ignores_duck(s) ==
    IF s.normal_volume = None /\ is_playing(s)
    THEN LET s1 == [s EXCEPT !.normal_volume = Some(audio_get_volume(s)),
                             !.ducked = TRUE]
         IN  IF Val(s1.normal_volume) < low_volume
             THEN pause(s1)
             ELSE audio_set_volume(s1, low_volume)
    ELSE s

\* Mutant: lowers the volume also when it is below low_volume already.
lower_volume_no_pause(s) ==
    IF s.normal_volume = None /\ is_playing(s) /\ duck
    THEN audio_set_volume([s EXCEPT !.normal_volume = Some(audio_get_volume(s)),
                                    !.ducked = TRUE], low_volume)
    ELSE s

lower_volume(s) ==
    IF s.normal_volume = None /\ is_playing(s) /\ duck
    THEN LET s1 == [s EXCEPT !.normal_volume = Some(audio_get_volume(s)),
                             !.ducked = TRUE]
         IN  IF Val(s1.normal_volume) < low_volume
             THEN pause(s1)
             ELSE audio_set_volume(s1, low_volume)
    ELSE s

\* "self.normal_volume and ...": None and 0 are both false in Python.
Truthy(o) == o # None /\ Val(o) # 0

\* Mutant: the first branch forgets self.normal_volume = None.
restore_volume_keeps(s) ==
    IF Truthy(s.normal_volume) /\ Val(s.normal_volume) > low_volume
    THEN [audio_set_volume(s, Val(s.normal_volume)) EXCEPT !.ducked = FALSE]
    ELSE LET s1 == [s EXCEPT !.normal_volume = None]
         IN  [resume(s1) EXCEPT !.ducked = FALSE]

\* Mutant: the else branch does not resume.
restore_volume_no_resume(s) ==
    IF Truthy(s.normal_volume) /\ Val(s.normal_volume) > low_volume
    THEN LET s1 == audio_set_volume(s, Val(s.normal_volume))
         IN  [s1 EXCEPT !.normal_volume = None, !.ducked = FALSE]
    ELSE [s EXCEPT !.normal_volume = None, !.ducked = FALSE]

\* Mutant: forgets the volume it is to restore before it sets it.
restore_volume_low(s) ==
    IF Truthy(s.normal_volume) /\ Val(s.normal_volume) > low_volume
    THEN LET s1 == audio_set_volume(s, low_volume)
         IN  [s1 EXCEPT !.normal_volume = None, !.ducked = FALSE]
    ELSE LET s1 == [s EXCEPT !.normal_volume = None]
         IN  [resume(s1) EXCEPT !.ducked = FALSE]

restore_volume(s) ==
    IF Truthy(s.normal_volume) /\ Val(s.normal_volume) > low_volume
    THEN LET s1 == audio_set_volume(s, Val(s.normal_volume))
         IN  [s1 EXCEPT !.normal_volume = None, !.ducked = FALSE]
    ELSE LET s1 == [s EXCEPT !.normal_volume = None]
         IN  [resume(s1) EXCEPT !.ducked = FALSE]

\* Mutant: stops whether or not the player is playing.
stop_always(s) ==
    [list_player_stop(clear_list(restore_volume(s))) EXCEPT !.ret = Some(TRUE)]

\* Mutant: stops without restoring the volume.
stop_no_restore(s) ==
    IF is_playing(s)
    THEN [list_player_stop(clear_list(s)) EXCEPT !.ret = Some(TRUE)]
    ELSE [s EXCEPT !.ret = Some(FALSE)]

stop(s) ==
    IF is_playing(s)
    THEN [list_player_stop(clear_list(restore_volume(s))) EXCEPT !.ret = Some(TRUE)]
    ELSE [s EXCEPT !.ret = Some(FALSE)]

track_info(s) ==
    [album |-> get_meta(s.media, "Album"),
     artists |-> <<get_meta(s.media, "Artist")>>,
     name |-> get_meta(s.media, "Title")]

\* Mutant: seek_forward without the clamp to the duration.
seek_forward_no_clamp(s, seconds) ==
    set_time(s, get_time(s) + seconds * MsPerSecond)

seek_forward(s, seconds) ==
    LET secs == seconds * MsPerSecond
        new_time == get_time(s) + secs
        duration == get_length(s)
    IN  set_time(s, IF new_time > duration THEN duration ELSE new_time)

seek_backward(s, seconds) ==
    LET secs == seconds * MsPerSecond
        new_time == get_time(s) - secs
    IN  set_time(s, IF new_time < 0 THEN 0 ELSE new_time)

\* ------------------------------------------------------------ the actions
\* What the history keeps of the state an operation started from.
Snap(s) ==
    [normal_volume |-> s.normal_volume, track_list |-> s.track_list,
     state |-> s.state, player_volume |-> s.player_volume, time |-> s.time]

Apply(s) ==
    /\ normal_volume' = s.normal_volume
    /\ track_list' = s.track_list
    /\ index' = s.index
    /\ media' = s.media
    /\ state' = s.state
    /\ player_volume' = s.player_volume
    /\ mode' = s.mode
    /\ time' = s.time
    /\ ducked' = s.ducked

\* The history keeps the last operation, and before it the operation that
\* came right before when that was a lower_volume.
Keep(h) ==
    IF h # <<>> /\ h[Len(h)].op = "lower_volume" THEN <<h[Len(h)]>> ELSE <<>>

Record(op, arg, s) ==
    hist' = Append(Keep(hist), [op |-> op, arg |-> arg, pre |-> Snap(Cur),
                                calls |-> s.calls, ret |-> s.ret])

\* A foreground call of the host, the event relay left aside.
Call(op, arg, s) ==
    /\ Apply(s)
    /\ Record(op, arg, s)
    /\ UNCHANGED <<config, relay, events, emitted, length, aux>>

\* The elements add_list can be given.
Entries ==
    [is_list : {FALSE}, val : {<<u>> : u \in URIs}]
    \cup [is_list : {TRUE}, val : {<<u>> : u \in URIs}]
    \cup [is_list : {TRUE}, val : {<<1, MaxURI>>}]

TrackArgs == UNION {[1..n -> Entries] : n \in 0..MaxQueue}

Play == \E repeat \in BOOLEAN : Call("play", <<repeat>>, play(Cur, repeat))
Stop == Call("stop", <<>>, stop(Cur))
Pause == Call("pause", <<>>, pause(Cur))
Resume == Call("resume", <<>>, resume(Cur))
NextTrack == Call("next", <<>>, next(Cur))
PreviousTrack == Call("previous", <<>>, previous(Cur))
LowerVolume == Call("lower_volume", <<>>, lower_volume(Cur))
RestoreVolume == Call("restore_volume", <<>>, restore_volume(Cur))
ClearList == Call("clear_list", <<>>, clear_list(Cur))
AddList ==
    \E tracks \in TrackArgs :
        /\ Len(track_list) + Len(tracks) <= MaxQueue
        /\ Call("add_list", <<>>, add_list(Cur, tracks))

\* The engine reaches the end of the track it plays: it goes on to the next
\* item, or the list has been played and the player stops.
track_end(s) ==
    IF next_index(s) # 0 THEN play_item(s, next_index(s))
    ELSE Emit([s EXCEPT !.state = "stopped", !.index = 0], "played")

EngineTrackEnd ==
    /\ state = "playing"
    /\ Call("track_end", <<>>, track_end(Cur))

SeekForward ==
    \E seconds \in SeekAmounts :
        Call("seek_forward", <<seconds>>, seek_forward(Cur, seconds))

SeekBackward ==
    \E seconds \in SeekAmounts :
        Call("seek_backward", <<seconds>>, seek_backward(Cur, seconds))

\* Playback goes on by half a second.
EngineTick ==
    /\ state = "playing"
    /\ time + 500 <= length
    /\ Call("tick", <<>>, [Cur EXCEPT !.time = @ + 500])

\* ---- the event relay
\* A call of the host or a step of the engine while the handlers of its
\* events run in the engine's thread; the events it emits are queued.
CallE(s) ==
    /\ s.emitted <= MaxEvents
    /\ Apply(s)
    /\ events' = s.events
    /\ emitted' = s.emitted
    /\ UNCHANGED <<config, relay, length, hist, aux>>

\* AudioBackend.set_track_start_callback(callback_func)
SetTrackStartCallback ==
    /\ ~callback
    /\ callback' = TRUE
    /\ UNCHANGED <<normal_volume, low_volume, duck, volume, track_list, index,
                   media, state, player_volume, mode, time, length, events,
                   hpc, invoked, emitted, ducked, hist, aux>>

PlayE == \E repeat \in BOOLEAN : CallE(play(Cur, repeat))
StopE == CallE(stop(Cur))
PauseE == CallE(pause(Cur))
ResumeE == CallE(resume(Cur))
NextTrackE == CallE(next(Cur))
PreviousTrackE == CallE(previous(Cur))
ClearListE == CallE(clear_list(Cur))
AddListE ==
    \E tracks \in TrackArgs :
        /\ tracks # <<>>
        /\ Len(track_list) + Len(tracks) <= MaxEventQueue
        /\ CallE(add_list(Cur, tracks))
EngineTrackEndE ==
    /\ state = "playing"
    /\ CallE(track_end(Cur))

\* The engine delivers the oldest event to its handler.  invoked gets one
\* entry per delivered event: the event, whether the handler found a
\* callback, and the arguments of the calls of the callback it made.
Deliver(type, found, args) ==
    /\ hpc = None
    /\ events # <<>>
    /\ Head(events).type = type
    /\ events' = Tail(events)
    /\ invoked' = Append(invoked, [ev |-> Head(events), cb |-> found,
                                   args |-> args])

RelayFrame ==
    UNCHANGED <<normal_volume, config, track_list, index, media, state,
                player_volume, mode, time, length, emitted, ducked, hist,
                aux>>

\* Mutant: queue_ended reports the current track's name.
queue_ended_name ==
    /\ Deliver("played", callback,
               IF callback THEN <<Some(track_info(Cur).name)>> ELSE <<>>)
    /\ hpc' = None
    /\ RelayFrame

\* Mutant: queue_ended forgets the callback once it has called it.
queue_ended_once ==
    /\ Deliver("played", callback, IF callback THEN <<None>> ELSE <<>>)
    /\ hpc' = None
    /\ callback' = FALSE
    /\ UNCHANGED <<normal_volume, low_volume, duck, volume, track_list,
                   index, media, state, player_volume, mode, time, length,
                   emitted, ducked, hist, aux>>

\* queue_ended: "if self._track_start_callback: ...(None)"
queue_ended ==
    /\ Deliver("played", callback, IF callback THEN <<None>> ELSE <<>>)
    /\ hpc' = None
    /\ RelayFrame

\* track_start, its test "if self._track_start_callback": with a callback
\* the handler goes on to read the track's name.
track_start ==
    /\ Deliver("playing", callback, <<>>)
    /\ hpc' = IF callback THEN Some(Head(events)) ELSE None
    /\ RelayFrame

\* track_start, the call: self._track_start_callback(self.track_info()['name'])
\* where track_info reads the player's media as it is now; without a media
\* get_media() is None and track_info raises.
track_start_call ==
    /\ hpc # None
    /\ invoked' = [invoked EXCEPT ![Len(invoked)].args =
                       IF media = 0 THEN @
                       ELSE Append(@, Some(track_info(Cur).name))]
    /\ hpc' = None
    /\ UNCHANGED events
    /\ RelayFrame

Threads == 1..MaxThreads
\* No thread is inside lower_volume.
Idle == [t \in Threads |-> [pc |-> "idle", nv |-> None]]

Init ==
    /\ normal_volume = None
    /\ low_volume \in Volumes
    /\ duck \in BOOLEAN
    /\ volume \in Volumes
    /\ callback = FALSE
    /\ track_list = <<>>
    /\ index = 0
    /\ media = 0
    /\ state = "stopped"
    /\ player_volume = MaxVolume
    /\ mode = "default"
    /\ time = 0
    /\ length = 0
    /\ events = <<>>
    /\ hpc = None
    /\ invoked = <<>>
    /\ emitted = 0
    /\ ducked = FALSE
    /\ hist = <<>>
    /\ after_stop = FALSE
    /\ conf = FullConfig(volume, low_volume, duck)
    /\ thr = Idle

Next ==
    \/ Play
    \/ Stop
    \/ Pause
    \/ Resume
    \/ NextTrack
    \/ PreviousTrack
    \/ LowerVolume
    \/ RestoreVolume
    \/ ClearList
    \/ AddList
    \/ EngineTrackEnd

Spec == Init /\ [][Next]_vars

\* Construction from any config and any answer of the bus, and the calls
\* that read the volumes it sets.
InitConstruct ==
    /\ conf \in Configs
    /\ normal_volume = None
    /\ low_volume = init_low_volume(conf)
    /\ duck = init_duck(conf)
    /\ volume = init_volume(conf)
    /\ callback = FALSE
    /\ track_list = <<>>
    /\ index = 0
    /\ media = 0
    /\ state = "stopped"
    /\ player_volume = MaxVolume
    /\ mode = "default"
    /\ time = 0
    /\ length = 0
    /\ events = <<>>
    /\ hpc = None
    /\ invoked = <<>>
    /\ emitted = 0
    /\ ducked = FALSE
    /\ hist = <<>>
    /\ after_stop = FALSE
    /\ thr = Idle

NextConstruct ==
    \/ AddList
    \/ Play
    \/ LowerVolume
    \/ RestoreVolume

SpecConstruct == InitConstruct /\ [][NextConstruct]_vars

\* The queue: add_list with longer arguments, clear_list, and play, so that
\* the queue is also changed under a playing list player.  The history also
\* keeps a clear_list that came right before the last operation, without
\* its pre-state.
KeepQ(h) ==
    IF h # <<>> /\ h[Len(h)].op = "clear_list"
    THEN <<[h[Len(h)] EXCEPT !.pre = None]>>
    ELSE <<>>

CallQ(op, arg, s) ==
    /\ Apply(s)
    /\ hist' = Append(KeepQ(hist), [op |-> op, arg |-> arg, pre |-> Snap(Cur),
                                    calls |-> s.calls, ret |-> s.ret])
    /\ UNCHANGED <<config, relay, events, emitted, length, aux>>

\* The elements of the longer arguments: every URI bare, and one URI in a
\* list of one and in a list of two elements.
QueueEntries ==
    [is_list : {FALSE}, val : {<<u>> : u \in URIs}]
    \cup [is_list : {TRUE}, val : {<<1>>, <<1, MaxURI>>}]

QueueArgs == UNION {[1..n -> QueueEntries] : n \in 0..MaxTracks}

AddListQ ==
    \E tracks \in QueueArgs :
        /\ Len(track_list) + Len(tracks) <= MaxTracks + 1
        /\ CallQ("add_list", tracks, add_list(Cur, tracks))
ClearListQ == CallQ("clear_list", <<>>, clear_list(Cur))
PlayQ == CallQ("play", <<FALSE>>, play(Cur, FALSE))

InitQueue ==
    /\ Init
    /\ low_volume = 0
    /\ volume = MaxVolume
    /\ ~duck

NextQueue ==
    \/ AddListQ
    \/ ClearListQ
    \/ PlayQ

SpecQueue == InitQueue /\ [][NextQueue]_vars

\* Stopping: the calls of the host, with the record of whether stop has
\* returned and only lower_volume and restore_volume were called since.
CallS(op, arg, s) ==
    /\ Apply(s)
    /\ Record(op, arg, s)
    /\ after_stop' = IF op = "stop" THEN TRUE
                     ELSE IF op \in {"lower_volume", "restore_volume"}
                         THEN after_stop
                     ELSE FALSE
    /\ UNCHANGED <<config, relay, events, emitted, length, conf, thr>>

AddListS ==
    \E tracks \in TrackArgs :
        /\ Len(track_list) + Len(tracks) <= MaxQueue
        /\ CallS("add_list", <<>>, add_list(Cur, tracks))
PlayS == CallS("play", <<FALSE>>, play(Cur, FALSE))
StopS == CallS("stop", <<>>, stop(Cur))
PauseS == CallS("pause", <<>>, pause(Cur))
ResumeS == CallS("resume", <<>>, resume(Cur))
LowerVolumeS == CallS("lower_volume", <<>>, lower_volume(Cur))
RestoreVolumeS == CallS("restore_volume", <<>>, restore_volume(Cur))

NextStop ==
    \/ AddListS
    \/ PlayS
    \/ StopS
    \/ PauseS
    \/ ResumeS
    \/ LowerVolumeS
    \/ RestoreVolumeS

SpecStop == Init /\ [][NextStop]_vars

\* Concurrency: every thread calls lower_volume once, with no lock.  A step
\* is one read of self.normal_volume, one query of the engine, or one write
\* of a field or of the engine; restore_volume follows when all have
\* returned.
adapter ==
    <<normal_volume, track_list, index, media, state, player_volume, mode,
      time, ducked>>

Goto(t, pc, nv) == thr' = [thr EXCEPT ![t] = [pc |-> pc, nv |-> nv]]

\* "self.normal_volume is None"
LowerVolumeEnter ==
    \E t \in Threads :
        /\ thr[t].pc = "idle"
        /\ Goto(t, IF normal_volume = None THEN "is_playing" ELSE "done", None)
        /\ UNCHANGED <<adapter, config, relay, events, emitted, length, hist,
                       after_stop, conf>>

\* "and self.player.is_playing() and self.config.get('duck', False)"
LowerVolumeIsPlaying ==
    \E t \in Threads :
        /\ thr[t].pc = "is_playing"
        /\ Goto(t, IF is_playing(Cur) /\ duck THEN "audio_get_volume"
                   ELSE "done", None)
        /\ UNCHANGED <<adapter, config, relay, events, emitted, length, hist,
                       after_stop, conf>>

\* "self.player.audio_get_volume()"
LowerVolumeGetVolume ==
    \E t \in Threads :
        /\ thr[t].pc = "audio_get_volume"
        /\ Goto(t, "assign", Some(audio_get_volume(Cur)))
        /\ UNCHANGED <<adapter, config, relay, events, emitted, length, hist,
                       after_stop, conf>>

\* "self.normal_volume = ..."
LowerVolumeAssign ==
    \E t \in Threads :
        /\ thr[t].pc = "assign"
        /\ Apply([Cur EXCEPT !.normal_volume = thr[t].nv, !.ducked = TRUE])
        /\ Goto(t, "compare", None)
        /\ UNCHANGED <<config, relay, events, emitted, length, hist,
                       after_stop, conf>>

\* "if self.normal_volume < self.low_volume": reads the field again.
LowerVolumeCompare ==
    \E t \in Threads :
        /\ thr[t].pc = "compare"
        /\ Goto(t, IF Val(normal_volume) < low_volume THEN "pause"
                   ELSE "audio_set_volume", None)
        /\ UNCHANGED <<adapter, config, relay, events, emitted, length, hist,
                       after_stop, conf>>

\* "self.pause()"
LowerVolumePause ==
    \E t \in Threads :
        /\ thr[t].pc = "pause"
        /\ Apply(pause(Cur))
        /\ Goto(t, "done", None)
        /\ UNCHANGED <<config, relay, events, emitted, length, hist,
                       after_stop, conf>>

\* "self.player.audio_set_volume(self.low_volume)"
LowerVolumeSetVolume ==
    \E t \in Threads :
        /\ thr[t].pc = "audio_set_volume"
        /\ Apply(audio_set_volume(Cur, low_volume))
        /\ Goto(t, "done", None)
        /\ UNCHANGED <<config, relay, events, emitted, length, hist,
                       after_stop, conf>>

\* Every thread has returned from lower_volume.
AllDone == \A t \in Threads : thr[t].pc = "done"

RestoreVolumeAfter ==
    /\ AllDone
    /\ hist = <<>>
    /\ Apply(restore_volume(Cur))
    /\ Record("restore_volume", <<>>, restore_volume(Cur))
    /\ UNCHANGED <<config, relay, events, emitted, length, aux>>

\* One track plays, at the volume play has set; nothing is ducked.
InitConc ==
    /\ normal_volume = None
    /\ low_volume \in Volumes
    /\ duck \in BOOLEAN
    /\ volume \in Volumes
    /\ callback = FALSE
    /\ track_list = <<1>>
    /\ index = 1
    /\ media = 1
    /\ state = "playing"
    /\ player_volume = volume
    /\ mode = "default"
    /\ time = 0
    /\ length = 0
    /\ events = <<>>
    /\ hpc = None
    /\ invoked = <<>>
    /\ emitted = 0
    /\ ducked = FALSE
    /\ hist = <<>>
    /\ after_stop = FALSE
    /\ conf = FullConfig(volume, low_volume, duck)
    /\ thr = Idle

NextConc ==
    \/ LowerVolumeEnter
    \/ LowerVolumeIsPlaying
    \/ LowerVolumeGetVolume
    \/ LowerVolumeAssign
    \/ LowerVolumeCompare
    \/ LowerVolumePause
    \/ LowerVolumeSetVolume
    \/ RestoreVolumeAfter

SpecConc == InitConc /\ [][NextConc]_vars

\* Seeking: a track of some length plays at some position.
InitSeek ==
    /\ normal_volume = None
    /\ low_volume \in Volumes
    /\ duck \in BOOLEAN
    /\ volume \in Volumes
    /\ callback = FALSE
    /\ track_list = <<1>>
    /\ index = 1
    /\ media = 1
    /\ state = "playing"
    /\ player_volume = volume
    /\ mode = "default"
    /\ length \in Lengths
    /\ time \in Positions(length)
    /\ events = <<>>
    /\ hpc = None
    /\ invoked = <<>>
    /\ emitted = 0
    /\ ducked = FALSE
    /\ hist = <<>>
    /\ after_stop = FALSE
    /\ conf = FullConfig(volume, low_volume, duck)
    /\ thr = Idle

NextSeek ==
    \/ SeekForward
    \/ SeekBackward
    \/ EngineTick

SpecSeek == InitSeek /\ [][NextSeek]_vars

\* The event relay: the host's calls, the engine, and the two handlers.
InitEvents ==
    /\ Init
    /\ low_volume = 0
    /\ volume = MaxVolume
    /\ ~duck

NextEvents ==
    \/ SetTrackStartCallback
    \/ AddListE
    \/ ClearListE
    \/ PlayE
    \/ StopE
    \/ PauseE
    \/ ResumeE
    \/ NextTrackE
    \/ PreviousTrackE
    \/ EngineTrackEndE
    \/ track_start
    \/ track_start_call
    \/ queue_ended

SpecEvents == InitEvents /\ [][NextEvents]_vars

\* ------------------------------------------------------------- the claims
Last == hist[Len(hist)]
LastIs(op) == hist # <<>> /\ Last.op = op
\* The last two operations were op1 and then op2.
Pair(op1, op2) == Len(hist) = 2 /\ hist[1].op = op1 /\ hist[2].op = op2

\* lower_volume takes effect from the state p.
DuckPre(p) == p.normal_volume = None /\ p.state = "playing" /\ duck

\* C1: normal_volume is not None exactly when a lower_volume has taken
\* effect (captured the engine volume) and no restore_volume, called directly
\* or by stop, has completed since.
C1_NormalVolumeIffDucked == (normal_volume # None) <=> ducked

C1_Witness ==
    /\ normal_volume # None
    /\ ducked
    /\ LastIs("lower_volume")
    /\ DuckPre(Last.pre)

\* C2: from a playing, not ducked state with ducking enabled and engine
\* volume V >= low_volume, lower_volume sets the volume to low_volume and
\* normal_volume to V, and restore_volume right after it leaves the engine
\* volume at V and normal_volume None.
C2_RoundTrip ==
    (/\ Pair("lower_volume", "restore_volume")
     /\ DuckPre(hist[1].pre)
     /\ hist[1].pre.player_volume >= low_volume)
    => /\ hist[2].pre.player_volume = low_volume
       /\ hist[2].pre.normal_volume = Some(hist[1].pre.player_volume)
       /\ player_volume = hist[1].pre.player_volume
       /\ normal_volume = None

C2_Witness ==
    /\ Pair("lower_volume", "restore_volume")
    /\ DuckPre(hist[1].pre)
    /\ hist[1].pre.player_volume > low_volume
    /\ low_volume > 0
    /\ player_volume = hist[1].pre.player_volume

\* C3: from a playing, not ducked state with ducking enabled and engine
\* volume V < low_volume, lower_volume pauses and leaves the volume at V;
\* restore_volume right after it resumes, leaves the volume at V and sets
\* normal_volume to None.
C3_LowVolumePause ==
    (/\ Pair("lower_volume", "restore_volume")
     /\ DuckPre(hist[1].pre)
     /\ hist[1].pre.player_volume < low_volume)
    => /\ hist[2].pre.state = "paused"
       /\ hist[2].pre.player_volume = hist[1].pre.player_volume
       /\ state = "playing"
       /\ player_volume = hist[1].pre.player_volume
       /\ normal_volume = None

C3_Witness ==
    /\ Pair("lower_volume", "restore_volume")
    /\ DuckPre(hist[1].pre)
    /\ hist[1].pre.player_volume < low_volume
    /\ hist[2].pre.state = "paused"
    /\ state = "playing"

\* C4: lower_volume called twice in a row leaves normal_volume, the engine
\* volume and the play state as the first call left them.
C4_DuckIdempotent ==
    Pair("lower_volume", "lower_volume")
    => /\ normal_volume = hist[2].pre.normal_volume
       /\ player_volume = hist[2].pre.player_volume
       /\ state = hist[2].pre.state

\* The first call took effect: by volume, by pause, and with volume 0.
C4_Witness ==
    /\ Pair("lower_volume", "lower_volume")
    /\ DuckPre(hist[1].pre)
    /\ hist[1].pre.player_volume > low_volume
    /\ normal_volume = Some(hist[1].pre.player_volume)

C4_WitnessPause ==
    /\ Pair("lower_volume", "lower_volume")
    /\ DuckPre(hist[1].pre)
    /\ hist[1].pre.player_volume < low_volume
    /\ state = "paused"

C4_WitnessZero ==
    /\ Pair("lower_volume", "lower_volume")
    /\ DuckPre(hist[1].pre)
    /\ normal_volume = Some(0)

\* C5: stop on a player that is not playing returns False, calls nothing on
\* the engine and leaves the queue, the engine volume, the play state and
\* normal_volume as they were.
C5_StopNotPlaying ==
    (LastIs("stop") /\ Last.pre.state # "playing")
    => /\ Last.ret = Some(FALSE)
       /\ Last.calls = <<>>
       /\ Snap(Cur) = Last.pre

\* stop on a paused player that is ducked and has a queue.
C5_Witness ==
    /\ LastIs("stop")
    /\ Last.pre.state = "paused"
    /\ Last.pre.normal_volume # None
    /\ Last.pre.track_list # <<>>
    /\ Last.ret = Some(FALSE)

\* C6: stop on a playing player returns True with normal_volume None, the
\* queue empty and the player stopped; when the volume was ducked
\* (normal_volume > low_volume) the engine volume is set back to it first,
\* before the queue is cleared and the list player stopped.
C6_StopPlaying ==
    (LastIs("stop") /\ Last.pre.state = "playing")
    => /\ Last.ret = Some(TRUE)
       /\ normal_volume = None
       /\ track_list = <<>>
       /\ state = "stopped"
       /\ (Last.pre.normal_volume # None
           /\ Val(Last.pre.normal_volume) > low_volume)
          => /\ Last.calls = << <<"audio_set_volume", Val(Last.pre.normal_volume)>>,
                                <<"set_media_list">>, <<"stop">> >>
             /\ player_volume = Val(Last.pre.normal_volume)

C6_Witness ==
    /\ LastIs("stop")
    /\ Last.pre.state = "playing"
    /\ Last.pre.normal_volume # None
    /\ Val(Last.pre.normal_volume) > low_volume
    /\ Last.pre.player_volume = low_volume
    /\ player_volume # low_volume
    /\ Last.pre.track_list # <<>>

\* The position the last operation asked the engine to set.
SetTimeArg == Last.calls[1][2]
LastIsSeek == LastIs("seek_forward") \/ LastIs("seek_backward")

C8_SeekRange ==
    (LastIsSeek /\ Last.pre.time >= 0 /\ Last.pre.time <= length)
    => (SetTimeArg >= 0 /\ SetTimeArg <= length)

\* C9: the handler of each delivered 'queue ended' event calls the callback
\* exactly once, with None, when a callback is registered, and calls nothing
\* when none is.
C9_QueueEndedRelay ==
    \A i \in 1..Len(invoked) :
        invoked[i].ev.type = "played"
        => invoked[i].args = IF invoked[i].cb THEN <<None>> ELSE <<>>

C9_Witness ==
    \E i \in 1..Len(invoked) :
        /\ invoked[i].ev.type = "played"
        /\ invoked[i].cb
        /\ invoked[i].args = <<None>>

C9_WitnessNoCallback ==
    \E i \in 1..Len(invoked) :
        /\ invoked[i].ev.type = "played"
        /\ ~invoked[i].cb
        /\ invoked[i].args = <<>>

\* The handler of the i-th delivered event has returned.
Handled(i) == i < Len(invoked) \/ hpc = None

\* C10: the handler of each delivered 'track started' event calls the
\* callback exactly once, with the name of the track that started, when a
\* callback is registered, whatever the host calls in between, and calls
\* nothing when none is.
C10_TrackStartRelay ==
    \A i \in 1..Len(invoked) :
        (invoked[i].ev.type = "playing" /\ Handled(i))
        => invoked[i].args =
              IF invoked[i].cb
              THEN <<Some(get_meta(invoked[i].ev.media, "Title"))>>
              ELSE <<>>

\* C11: lower_volume changes state only when normal_volume is None, the
\* player is playing and the 'duck' flag is true; when one of the three
\* fails it calls nothing on the engine and leaves normal_volume, the engine
\* volume and the play state as they were.
C11_DuckGuard ==
    LastIs("lower_volume")
    => /\ ~DuckPre(Last.pre)
          => /\ Last.calls = <<>>
             /\ normal_volume = Last.pre.normal_volume
             /\ player_volume = Last.pre.player_volume
             /\ state = Last.pre.state
       /\ (Last.calls # <<>> \/ normal_volume # Last.pre.normal_volume)
          => DuckPre(Last.pre)

\* Ducking disabled, on a playing player that is not ducked.
C11_Witness ==
    /\ LastIs("lower_volume")
    /\ ~duck
    /\ Last.pre.state = "playing"
    /\ Last.pre.normal_volume = None
    /\ Last.pre.player_volume > low_volume

C11_WitnessDucked ==
    /\ LastIs("lower_volume")
    /\ duck
    /\ Last.pre.state = "playing"
    /\ Last.pre.normal_volume # None

C11_WitnessPaused ==
    /\ LastIs("lower_volume")
    /\ duck
    /\ Last.pre.state = "paused"
    /\ Last.pre.normal_volume = None

\* C12: restore_volume with normal_volume None leaves the engine volume and
\* the queue as they were and normal_volume None, and un-pauses the engine:
\* a playing player stays playing, a paused one plays.
C12_RestoreNeverDucked ==
    (LastIs("restore_volume") /\ Last.pre.normal_volume = None)
    => /\ player_volume = Last.pre.player_volume
       /\ track_list = Last.pre.track_list
       /\ normal_volume = None
       /\ Last.calls = << <<"set_pause", 0>> >>
       /\ Last.pre.state \in {"playing", "paused"} => state = "playing"

C12_Witness ==
    /\ LastIs("restore_volume")
    /\ Last.pre.normal_volume = None
    /\ Last.pre.state = "paused"
    /\ state = "playing"

C12_WitnessPlaying ==
    /\ LastIs("restore_volume")
    /\ Last.pre.normal_volume = None
    /\ Last.pre.state = "playing"
    /\ state = "playing"

\* C13: after every play(repeat) the engine volume is self.volume, whatever
\* it was and ducked or not; play leaves normal_volume as it was; and no
\* operation changes self.volume.
C13_PlayVolume ==
    /\ [](LastIs("play")
          => /\ player_volume = volume
             /\ Last.calls[Len(Last.calls)] = <<"audio_set_volume", volume>>
             /\ normal_volume = Last.pre.normal_volume)
    /\ [][volume' = volume]_vars

\* play on a ducked player whose volume was lowered.
C13_Witness ==
    /\ LastIs("play")
    /\ Last.pre.normal_volume # None
    /\ Last.pre.player_volume # volume
    /\ player_volume = volume

\* C17: while normal_volume is not None and normal_volume >= low_volume
\* (ducked by volume) the engine volume is low_volume, whatever of play,
\* pause, resume, next, previous and lower_volume is called.
C17_DuckedVolumeHolds ==
    (normal_volume # None /\ Val(normal_volume) >= low_volume)
    => player_volume = low_volume

C14_WitnessNoAnswer ==
    /\ conf.volume = None
    /\ conf.bus = None
    /\ conf.low_volume = None
    /\ volume = 50
    /\ low_volume = 30
    /\ LastIs("play")

C14_WitnessConfigured ==
    /\ conf.volume # None
    /\ conf.bus # None
    /\ (Val(conf.bus) * 100) \div 1000 # Val(conf.volume)
    /\ volume = Val(conf.volume)

\* The media add_list is to add for tracks: a bare URI as it is, of a list
\* its first element.
Media(tracks) ==
    [i \in 1..Len(tracks) |->
        IF tracks[i].is_list THEN Head(tracks[i].val) ELSE Val(tracks[i].val)]

\* C15: after add_list(tracks) the queue is the queue before followed by one
\* entry per element of tracks, in the order given, none dropped, doubled or
\* refused; after clear_list and then add_list(tracks) it holds exactly
\* those entries.
C15_Enqueue ==
    LastIs("add_list")
    => /\ track_list = Last.pre.track_list \o Media(Last.arg)
       /\ Pair("clear_list", "add_list") => track_list = Media(Last.arg)

\* Two entries, the same URI twice, onto a queue that is not empty.
C15_Witness ==
    /\ LastIs("add_list")
    /\ Last.pre.track_list # <<>>
    /\ Len(Last.arg) = 2
    /\ Last.arg[1].is_list
    /\ ~Last.arg[2].is_list
    /\ Media(Last.arg)[1] = Media(Last.arg)[2]
    /\ Len(track_list) = Len(Last.pre.track_list) + 2

\* clear_list, then add_list of two elements, the first a list of two
\* elements of which the first is added.
C15_WitnessClear ==
    /\ Pair("clear_list", "add_list")
    /\ hist[1].calls = << <<"set_media_list">> >>
    /\ Len(Last.arg) = 2
    /\ Last.arg[1].is_list
    /\ Len(Last.arg[1].val) = 2
    /\ track_list = <<1, MaxURI>>

\* C16: once stop has returned, true or false, the player is not playing,
\* and it stays so while only lower_volume and restore_volume are called.
C16_StopFinal == after_stop => ~is_playing(Cur)

\* C18: on a playing adapter that is not ducked, with ducking enabled and
\* the engine at a volume V that is not below low_volume, once every
\* concurrent lower_volume has returned normal_volume is V, and after the
\* restore_volume that follows the engine is at V again and normal_volume is
\* None.  (V is self.volume, which nothing changes.)
C18_ConcurrentDuck ==
    (duck /\ volume >= low_volume /\ AllDone)
    => IF LastIs("restore_volume")
       THEN player_volume = volume /\ normal_volume = None
       ELSE normal_volume = Some(volume)

\* C19: a step of the track_start or queue_ended handler, wherever it falls
\* between the calls of the host, leaves normal_volume, volume, low_volume,
\* the engine's volume, the play state, the queue and the registered
\* callback as they were, and the handler of one event calls the callback
\* at most once.
C19_HandlersReadOnly ==
    /\ [](\A i \in 1..Len(invoked) : Len(invoked[i].args) <= 1)
    /\ [][relay' # relay
          => UNCHANGED <<normal_volume, volume, low_volume, player_volume,
                         state, track_list, callback>>]_vars

\* Both handlers have run with a callback and called it, and the queue of
\* the host is not empty.
C19_Witness ==
    /\ hpc = None
    /\ track_list # <<>>
    /\ \E i, j \in 1..Len(invoked) :
           /\ invoked[i].ev.type = "playing"
           /\ invoked[j].ev.type = "played"
           /\ Len(invoked[i].args) = 1
           /\ Len(invoked[j].args) = 1

\* The track_start handler has tested the callback and not yet called it,
\* and the host has moved to another track and paused in between.
C19_WitnessInterleaved ==
    /\ hpc # None
    /\ state = "paused"
    /\ media # Val(hpc).media

====
